---- MODULE Spec2Model ----
(***************************************************************************)
(* State-machine model of the moving-checklist backend: the users, tasks   *)
(* and tokens tables, the Postgres stores over them, the authentication    *)
(* middleware, the authorization guard and the HTTP handlers.              *)
(*                                                                         *)
(* Text (names, usernames, passwords, ...) is a sequence of one-character  *)
(* strings, so that length and trimming are computed.  Bearer tokens and   *)
(* header words are strings; a header is a sequence of words and spaces.   *)
(* An optional value (a Go pointer that may be nil) is a set with zero or  *)
(* one element.  Time is counted in hours on one clock.                    *)
(***************************************************************************)
EXTENDS Integers, Sequences, FiniteSets, TLC

VARIABLES users, nextUserID, tasks, nextTaskID, tokens, now, issued, last,
          pending

vars == <<users, nextUserID, tasks, nextTaskID, tokens, now, issued, last,
          pending>>

(***************************************************************************)
(* Bounds of the model.                                                    *)
(***************************************************************************)
\* users.id values handed out by the users_id sequence
MaxUserID == 2
\* tasks.id values handed out by the tasks_id sequence
MaxTaskID == 2
\* last value of the clock, in hours
MaxTime == 24
\* hours the clock advances in one step
TickHours == 12
\* PUT /tasks/{id} requests in flight at once
MaxPending == 2

(***************************************************************************)
(* Program constants.                                                      *)
(***************************************************************************)
\* 24*time.Hour, the ttl HandleRegisterUser passes to GenerateToken
RegisterTTL == 24
\* validateTaskInput: len(input.Name) > 100
MaxNameLen == 100
\* validateTaskInput: len(input.Category) > 50
MaxCategoryLen == 50
\* validateUserInput: len(input.Username) > 50
MaxUsernameLen == 50
\* validateUserInput: len(input.Password) < 8
MinPasswordLen == 8
\* tasks.name VARCHAR(50)
NameColumnLen == 50
\* tasks.description VARCHAR(255)
DescriptionColumnLen == 255
\* tasks.category VARCHAR(255)
CategoryColumnLen == 255

(***************************************************************************)
(* Text.                                                                   *)
(***************************************************************************)
\* unicode.IsSpace on the characters the model uses
IsSpace(c) == c \in {" ", "\t", "\n"}

RECURSIVE TrimLeftSpace(_)
TrimLeftSpace(s) ==
    IF s # <<>> /\ IsSpace(Head(s)) THEN TrimLeftSpace(Tail(s)) ELSE s

RECURSIVE TrimRightSpace(_)
TrimRightSpace(s) ==
    IF s # <<>> /\ IsSpace(s[Len(s)])
    THEN TrimRightSpace(SubSeq(s, 1, Len(s) - 1))
    ELSE s

\* strings.TrimSpace
TrimSpace(s) == TrimRightSpace(TrimLeftSpace(s))

RECURSIVE SqlTrimLeft(_)
SqlTrimLeft(s) ==
    IF s # <<>> /\ Head(s) = " " THEN SqlTrimLeft(Tail(s)) ELSE s

RECURSIVE SqlTrimRight(_)
SqlTrimRight(s) ==
    IF s # <<>> /\ s[Len(s)] = " "
    THEN SqlTrimRight(SubSeq(s, 1, Len(s) - 1))
    ELSE s

\* Postgres trim(name): strips the space character only
SqlTrim(s) == SqlTrimRight(SqlTrimLeft(s))

(***************************************************************************)
(* Values.                                                                 *)
(***************************************************************************)
\* sql.NullTime
NullTime == [valid |-> FALSE, time |-> 0]
ValidTime(t) == [valid |-> TRUE, time |-> t]

\* the error values the stores return
NoErr == "nil"
ErrTaskNotFound == "task not found"
ErrNoRows == "sql: no rows in result set"
ErrNilTask == "cannot update nil task"
ErrDB == "pq: constraint violated or query failed"

\* an HTTP response: status, kind of body, message, payload
Resp(status, kind, msg, data) ==
    [status |-> status, kind |-> kind, msg |-> msg, data |-> data]

\* the response of a request no middleware or handler has answered yet
NoResp == Resp(0, "none", "", {})

(***************************************************************************)
(* The database a store call runs against: the three tables, the two id    *)
(* sequences and the database clock.                                       *)
(***************************************************************************)
DB == [users |-> users, nextUserID |-> nextUserID, tasks |-> tasks,
       nextTaskID |-> nextTaskID, tokens |-> tokens, now |-> now]

UserIDs(db) == {u.id : u \in db.users}

(***************************************************************************)
(* The schema: the constraints the migrations put on the tables.           *)
(***************************************************************************)
\* tasks: name VARCHAR(50) NOT NULL, description VARCHAR(255), category VARCHAR(255)
TaskColumnsOK(row) ==
    /\ Len(row.name) <= NameColumnLen
    /\ Len(row.description) <= DescriptionColumnLen
    /\ Len(row.category) <= CategoryColumnLen

\* CONSTRAINT task_name_not_empty CHECK (char_length(trim(name)) > 0)
TaskNameNotEmpty(row) == Len(SqlTrim(row.name)) > 0

\* tasks.user_id BIGINT NOT NULL, fk_user REFERENCES users(id)
TaskFkUser(db, row) == row.user_id \in UserIDs(db)

TaskRowOK(db, row) ==
    TaskColumnsOK(row) /\ TaskNameNotEmpty(row) /\ TaskFkUser(db, row)

\* tokens.token PRIMARY KEY, fk_user REFERENCES users(id)
TokenRowOK(db, row) ==
    /\ \A t \in db.tokens : t.token # row.token
    /\ row.user_id \in UserIDs(db)

\* users.username and users.email are unique
UserRowOK(db, row) ==
    \A u \in db.users : u.id # row.id =>
        u.username # row.username /\ u.email # row.email

(***************************************************************************)
(* PostgresTaskStore, scoped by the owning user.  Every call returns its   *)
(* Go results and the database it leaves.                                  *)
(***************************************************************************)
\* a db.Task without id and timestamps, as a caller builds it
NewTask(userID, name, description, category, isComplete, dueDate) ==
    [id |-> 0, user_id |-> userID, name |-> name, description |-> description,
     category |-> category, is_complete |-> isComplete, due_date |-> dueDate,
     created_at |-> NullTime, updated_at |-> NullTime]

\* CreateTask binding description and category to each other's column
CreateTaskSwapped(db, task) ==
    LET row == [task EXCEPT !.id = db.nextTaskID,
                            !.description = task.category,
                            !.category = task.description,
                            !.created_at = ValidTime(db.now),
                            !.updated_at = ValidTime(db.now)]
    IN  IF TaskRowOK(db, row)
        THEN [err |-> NoErr, task |-> {[task EXCEPT !.id = db.nextTaskID]},
              db |-> [db EXCEPT !.tasks = @ \cup {row}, !.nextTaskID = @ + 1]]
        ELSE [err |-> ErrDB, task |-> {}, db |-> db]

CreateTask(db, task) ==
    LET row == [task EXCEPT !.id = db.nextTaskID,
                            !.created_at = ValidTime(db.now),
                            !.updated_at = ValidTime(db.now)]
    IN  IF TaskRowOK(db, row)
        THEN [err |-> NoErr, task |-> {[task EXCEPT !.id = db.nextTaskID]},
              db |-> [db EXCEPT !.tasks = @ \cup {row}, !.nextTaskID = @ + 1]]
        ELSE [err |-> ErrDB, task |-> {}, db |-> db]

\* DeleteTask with "AND user_id = $2" left out of its WHERE clause
DeleteTaskAnyOwner(db, id, userID) ==
    LET rows == {t \in db.tasks : t.id = id}
    IN  IF rows = {}
        THEN [err |-> ErrTaskNotFound, db |-> db]
        ELSE [err |-> NoErr, db |-> [db EXCEPT !.tasks = @ \ rows]]

\* DeleteTask without its test of RowsAffected
DeleteTaskQuiet(db, id, userID) ==
    LET rows == {t \in db.tasks : t.id = id /\ t.user_id = userID}
    IN  [err |-> NoErr, db |-> [db EXCEPT !.tasks = @ \ rows]]

DeleteTask(db, id, userID) ==
    LET rows == {t \in db.tasks : t.id = id /\ t.user_id = userID}
    IN  IF rows = {}
        THEN [err |-> ErrTaskNotFound, db |-> db]
        ELSE [err |-> NoErr, db |-> [db EXCEPT !.tasks = @ \ rows]]

\* the row an UPDATE of the task store writes over row t
UpdatedRow(t, task) ==
    [t EXCEPT !.name = task.name, !.description = task.description,
              !.category = task.category, !.is_complete = task.is_complete,
              !.due_date = task.due_date, !.updated_at = task.updated_at]

\* task is a *Task: the empty set is nil
UpdateTask(db, task) ==
    IF task = {} THEN [err |-> ErrNilTask, db |-> db]
    ELSE LET in == CHOOSE x \in task : TRUE
             rows == {t \in db.tasks : t.id = in.id /\ t.user_id = in.user_id}
             written == {UpdatedRow(t, in) : t \in rows}
         IN  IF \E r \in written : ~TaskRowOK(db, r)
             THEN [err |-> ErrDB, db |-> db]
             ELSE IF rows = {}
             THEN [err |-> ErrTaskNotFound, db |-> db]
             ELSE [err |-> NoErr,
                   db |-> [db EXCEPT !.tasks = (@ \ rows) \cup written]]

GetTaskByID(db, id, userID) ==
    LET rows == {t \in db.tasks : t.id = id /\ t.user_id = userID}
    IN  IF rows = {}
        THEN [err |-> ErrTaskNotFound, task |-> {}]
        ELSE [err |-> NoErr, task |-> {CHOOSE t \in rows : TRUE}]

(***************************************************************************)
(* PostgresTaskStore as the task handlers call it: by task id alone.       *)
(***************************************************************************)
DeleteTaskUnscoped(db, id) ==
    LET rows == {t \in db.tasks : t.id = id}
    IN  IF rows = {}
        THEN [err |-> ErrNoRows, db |-> db]
        ELSE [err |-> NoErr, db |-> [db EXCEPT !.tasks = @ \ rows]]

UpdateTaskUnscoped(db, task) ==
    IF task = {} THEN [err |-> ErrNilTask, db |-> db]
    ELSE LET in == CHOOSE x \in task : TRUE
             rows == {t \in db.tasks : t.id = in.id}
             written == {UpdatedRow(t, in) : t \in rows}
         IN  IF \E r \in written : ~TaskRowOK(db, r)
             THEN [err |-> ErrDB, db |-> db]
             ELSE IF rows = {}
             THEN [err |-> ErrNoRows, db |-> db]
             ELSE [err |-> NoErr,
                   db |-> [db EXCEPT !.tasks = (@ \ rows) \cup written]]

\* the SELECT names no user_id column: the scanned Task keeps UserID 0
GetTaskByIDUnscoped(db, id) ==
    LET rows == {t \in db.tasks : t.id = id}
    IN  IF rows = {}
        THEN [err |-> NoErr, task |-> {}]
        ELSE [err |-> NoErr,
              task |-> {[(CHOOSE t \in rows : TRUE) EXCEPT !.user_id = 0]}]

(***************************************************************************)
(* PostgresUserStore.                                                      *)
(***************************************************************************)
\* a db.User as a caller builds it: no id, and the zero time.Time
NewUser(username, email, passwordHash) ==
    [id |-> 0, username |-> username, email |-> email,
     password_hash |-> passwordHash,
     created_at |-> NullTime, updated_at |-> NullTime]

\* RegisterUser on a users table without its two unique constraints
RegisterUserAnyName(db, user) ==
    LET row == [user EXCEPT !.id = db.nextUserID,
                            !.created_at = ValidTime(db.now),
                            !.updated_at = ValidTime(db.now)]
    IN  [err |-> NoErr, user |-> {row},
         db |-> [db EXCEPT !.users = @ \cup {row}, !.nextUserID = @ + 1]]

\* the row gets its id and both timestamps from the column defaults
RegisterUser(db, user) ==
    LET row == [user EXCEPT !.id = db.nextUserID,
                            !.created_at = ValidTime(db.now),
                            !.updated_at = ValidTime(db.now)]
    IN  IF UserRowOK(db, row)
        THEN [err |-> NoErr, user |-> {row},
              db |-> [db EXCEPT !.users = @ \cup {row}, !.nextUserID = @ + 1]]
        ELSE [err |-> ErrDB, user |-> {}, db |-> db]

\* DeleteUser on tables whose fk_user constraints have no ON DELETE CASCADE
\* and are not enforced
DeleteUserOnly(db, id) ==
    LET rows == {u \in db.users : u.id = id}
    IN  IF rows = {}
        THEN [err |-> ErrNoRows, db |-> db]
        ELSE [err |-> NoErr, db |-> [db EXCEPT !.users = @ \ rows]]

\* ON DELETE CASCADE removes the user's tasks and tokens with the user
DeleteUser(db, id) ==
    LET rows == {u \in db.users : u.id = id}
    IN  IF rows = {}
        THEN [err |-> ErrNoRows, db |-> db]
        ELSE [err |-> NoErr,
              db |-> [db EXCEPT !.users = @ \ rows,
                                !.tasks = {t \in @ : t.user_id # id},
                                !.tokens = {t \in @ : t.user_id # id}]]

\* user is a *User: the empty set is nil
UpdateUser(db, user) ==
    IF user = {} THEN [err |-> "cannot update nil user", db |-> db]
    ELSE LET in == CHOOSE x \in user : TRUE
             rows == {u \in db.users : u.id = in.id}
             written == {[u EXCEPT !.username = in.username,
                                   !.email = in.email,
                                   !.password_hash = in.password_hash,
                                   !.updated_at = ValidTime(db.now)] :
                          u \in rows}
         IN  IF \E r \in written : ~UserRowOK(db, r)
             THEN [err |-> ErrDB, db |-> db]
             ELSE IF rows = {}
             THEN [err |-> ErrNoRows, db |-> db]
             ELSE [err |-> NoErr,
                   db |-> [db EXCEPT !.users = (@ \ rows) \cup written]]

(***************************************************************************)
(* Tokens.                                                                 *)
(***************************************************************************)
\* base64.URLEncoding of sha256.Sum256: one-way, injective on the tokens of
\* the model, and never equal to its argument
HashToken(token) == "sha256(" \o token \o ")"

\* GenerateToken persisting the raw token in place of its hash
GenerateTokenUnhashed(db, userID, ttl, scope, raw) ==
    LET row == [token |-> raw, user_id |-> userID,
                expiry |-> db.now + ttl, scope |-> scope]
    IN  IF \A t \in db.tokens : t.token # row.token
        THEN [err |-> NoErr, token |-> raw,
              db |-> [db EXCEPT !.tokens = @ \cup {row}]]
        ELSE [err |-> ErrDB, token |-> "", db |-> db]

\* raw is what rand.Read and base64.URLEncoding produced
GenerateToken(db, userID, ttl, scope, raw) ==
    LET row == [token |-> HashToken(raw), user_id |-> userID,
                expiry |-> db.now + ttl, scope |-> scope]
    IN  IF TokenRowOK(db, row)
        THEN [err |-> NoErr, token |-> raw,
              db |-> [db EXCEPT !.tokens = @ \cup {row}]]
        ELSE [err |-> ErrDB, token |-> "", db |-> db]

\* GetUserByToken with "t.expiry >= CURRENT_TIMESTAMP"
GetUserByTokenAtExpiry(db, token, scope, dbOk) ==
    LET rows == {u \in db.users : \E t \in db.tokens :
                    /\ u.id = t.user_id
                    /\ t.token = HashToken(token)
                    /\ t.scope = scope
                    /\ t.expiry >= db.now}
    IN  IF ~dbOk THEN [err |-> ErrDB, user |-> {}]
        ELSE IF rows = {} THEN [err |-> NoErr, user |-> {}]
        ELSE [err |-> NoErr, user |-> {CHOOSE u \in rows : TRUE}]

\* GetUserByToken with "AND t.scope = $2" left out of its WHERE clause
GetUserByTokenAnyScope(db, token, scope, dbOk) ==
    LET rows == {u \in db.users : \E t \in db.tokens :
                    /\ u.id = t.user_id
                    /\ t.token = HashToken(token)
                    /\ t.expiry > db.now}
    IN  IF ~dbOk THEN [err |-> ErrDB, user |-> {}]
        ELSE IF rows = {} THEN [err |-> NoErr, user |-> {}]
        ELSE [err |-> NoErr, user |-> {CHOOSE u \in rows : TRUE}]

\* dbOk: the query reached the database and ran
GetUserByToken(db, token, scope, dbOk) ==
    LET rows == {u \in db.users : \E t \in db.tokens :
                    /\ u.id = t.user_id
                    /\ t.token = HashToken(token)
                    /\ t.scope = scope
                    /\ t.expiry > db.now}
    IN  IF ~dbOk THEN [err |-> ErrDB, user |-> {}]
        ELSE IF rows = {} THEN [err |-> NoErr, user |-> {}]
        ELSE [err |-> NoErr, user |-> {CHOOSE u \in rows : TRUE}]

(***************************************************************************)
(* Middleware.  A request carries its Authorization header and its         *)
(* context: the value under userContextKey, when one was set.              *)
(***************************************************************************)
\* a context no SetUser has touched
EmptyCtx == [set |-> FALSE, user |-> {}]

\* context.WithValue(ctx, userContextKey, user)
SetUser(ctx, user) == [set |-> TRUE, user |-> user]

\* the type assertion fails on a context without the key
GetUser(ctx) == IF ctx.set THEN ctx.user ELSE {}

RECURSIVE SplitAcc(_, _, _)
SplitAcc(h, cur, acc) ==
    IF h = <<>> THEN Append(acc, cur)
    ELSE IF Head(h) = " " THEN SplitAcc(Tail(h), "", Append(acc, cur))
    ELSE SplitAcc(Tail(h), cur \o Head(h), acc)

\* strings.Split with only its first two parts kept
SplitHeaderTwo(h) ==
    LET parts == SplitAcc(h, "", <<>>)
    IN  IF Len(parts) > 2 THEN SubSeq(parts, 1, 2) ELSE parts

\* strings.Split(authHeader, " ")
SplitHeader(h) == SplitAcc(h, "", <<>>)

\* Authenticate on a request that has an Authorization header
AuthenticateHeader(db, req, dbOk) ==
    LET parts == SplitHeader(req.header)
    IN  IF Len(parts) # 2 \/ parts[1] # "Bearer"
        THEN [resp |-> Resp(401, "json_error",
                            "invalid authorization header", {}),
              next |-> FALSE, ctx |-> req.ctx, queries |-> 0]
        ELSE LET r == GetUserByToken(db, parts[2], "auth", dbOk)
             IN  IF r.err # NoErr \/ r.user = {}
                 THEN [resp |-> Resp(401, "json_error",
                                     "invalid or expired token", {}),
                       next |-> FALSE, ctx |-> req.ctx, queries |-> 1]
                 ELSE [resp |-> NoResp, next |-> TRUE,
                       ctx |-> SetUser(req.ctx, r.user), queries |-> 1]

\* Authenticate refusing a request that has no Authorization header
AuthenticateStrict(db, req, dbOk) ==
    IF req.header = <<>>
    THEN [resp |-> Resp(401, "json_error", "invalid authorization header", {}),
          next |-> FALSE, ctx |-> req.ctx, queries |-> 0]
    ELSE AuthenticateHeader(db, req, dbOk)

\* Authenticate telling a database error from a token that does not resolve
AuthenticateTelling(db, req, dbOk) ==
    LET a == AuthenticateHeader(db, req, dbOk)
    IN  IF req.header = <<>>
        THEN [resp |-> NoResp, next |-> TRUE, ctx |-> SetUser(req.ctx, {}),
              queries |-> 0]
        ELSE IF a.queries = 1 /\ ~dbOk
        THEN [a EXCEPT !.resp = Resp(500, "json_error", "internal error", {})]
        ELSE a

\* Authenticate up to its call of next: the response it wrote (if any),
\* whether it calls next, the context it passes on, its token-store queries
Authenticate(db, req, dbOk) ==
    IF req.header = <<>>
    THEN [resp |-> NoResp, next |-> TRUE, ctx |-> SetUser(req.ctx, {}),
          queries |-> 0]
    ELSE AuthenticateHeader(db, req, dbOk)

\* RequireUser letting every request through
RequireUserOpen(req) ==
    [resp |-> NoResp, next |-> TRUE, ctx |-> req.ctx, queries |-> 0]

RequireUser(req) ==
    IF GetUser(req.ctx) = {}
    THEN [resp |-> Resp(401, "json_error",
                        "you must be logged in to access this route", {}),
          next |-> FALSE, ctx |-> req.ctx, queries |-> 0]
    ELSE [resp |-> NoResp, next |-> TRUE, ctx |-> req.ctx, queries |-> 0]

Middleware(name, db, req, dbOk) ==
    IF name = "Authenticate" THEN Authenticate(db, req, dbOk)
    ELSE RequireUser(req)

\* the middleware stack of a route, outermost first: what ran, the response
\* of the middleware that stopped the request (if one did), the context
\* the handler is called with, and whether the handler is reached
RECURSIVE Serve(_, _, _, _)
Serve(mws, db, req, dbOk) ==
    IF mws = <<>>
    THEN [resp |-> NoResp, reached |-> TRUE, ctx |-> req.ctx, queries |-> 0,
          ran |-> <<>>, vary |-> FALSE]
    ELSE LET m == Middleware(Head(mws), db, req, dbOk)
             rest == Serve(Tail(mws), db, [req EXCEPT !.ctx = m.ctx], dbOk)
             isAuth == Head(mws) = "Authenticate"
         IN  IF m.next
             THEN [rest EXCEPT !.queries = @ + m.queries,
                               !.ran = <<Head(mws)>> \o @,
                               !.vary = @ \/ isAuth]
             ELSE [resp |-> m.resp, reached |-> FALSE, ctx |-> m.ctx,
                   queries |-> m.queries, ran |-> <<Head(mws)>>,
                   vary |-> isAuth]

(***************************************************************************)
(* Routes.                                                                 *)
(***************************************************************************)
TaskRoutes == {"POST /tasks", "PUT /tasks/{id}", "DELETE /tasks/{id}",
               "GET /tasks/{id}"}
UserRoutes == {"DELETE /users/me", "PUT /users/me"}
Routes == TaskRoutes \cup UserRoutes \cup {"POST /users"}

\* SetupRoutes: r.Use(app.Middleware.Authenticate), r.Use(middleware.RequireUser)
Middlewares(route) ==
    IF route \in TaskRoutes \cup UserRoutes
    THEN <<"Authenticate", "RequireUser">>
    ELSE <<>>

(***************************************************************************)
(* Task handlers.  A handler returns its response and the database it      *)
(* leaves.                                                                 *)
(***************************************************************************)
\* the RFC3339 texts the model knows, with their instants
TimeText == [t \in {48} |-> "2025-06-01T00:00:00Z"]

\* time.Parse(time.RFC3339, s)
ParseRFC3339(s) ==
    IF \E t \in DOMAIN TimeText : TimeText[t] = s
    THEN [ok |-> TRUE, time |-> CHOOSE t \in DOMAIN TimeText : TimeText[t] = s]
    ELSE [ok |-> FALSE, time |-> 0]

\* nt.Time.Format(time.RFC3339)
FormatRFC3339(t) == TimeText[t]

\* a TaskRequest
TaskRequest(name, description, category, isComplete, dueDate) ==
    [name |-> name, description |-> description, category |-> category,
     is_complete |-> isComplete, due_date |-> dueDate]

\* validateTaskInput testing the name as sent, without strings.TrimSpace
validateTaskInputUntrimmed(input, mode) ==
    (IF mode = "create" /\ input.name = <<>>
     THEN {<<"name", "name is required">>}
     ELSE IF mode = "create" /\ Len(input.name) > MaxNameLen
     THEN {<<"name", "name must be less than 100 characters">>}
     ELSE {})
    \cup
    (IF Len(input.category) > MaxCategoryLen
     THEN {<<"category", "category must be less than 50 characters">>}
     ELSE {})

\* the map of field errors, as a set of <<field, message>>
validateTaskInput(input, mode) ==
    (IF mode = "create" /\ TrimSpace(input.name) = <<>>
     THEN {<<"name", "name is required">>}
     ELSE IF mode = "create" /\ Len(input.name) > MaxNameLen
     THEN {<<"name", "name must be less than 100 characters">>}
     ELSE {})
    \cup
    (IF Len(input.category) > MaxCategoryLen
     THEN {<<"category", "category must be less than 50 characters">>}
     ELSE {})
    \cup
    (IF input.due_date # "" /\ ~ParseRFC3339(input.due_date).ok
     THEN {<<"due_date", "due_date must be in RFC3339 format (e.g., 2025-05-17T15:04:05Z)">>}
     ELSE {})

\* s is a *string: the empty set is nil
derefString(s) == IF s = {} THEN <<>> ELSE CHOOSE x \in s : TRUE

\* nt is a *sql.NullTime
derefNullTime(nt) ==
    IF nt = {} THEN ""
    ELSE LET t == CHOOSE x \in nt : TRUE
         IN  IF ~t.valid THEN "" ELSE FormatRFC3339(t.time)

\* utils.ReadIDParam; chi matches {id} on a non-empty path segment
ReadIDParam(idp) ==
    IF idp.parses THEN [err |-> NoErr, id |-> idp.n]
    ELSE [err |-> "invalid id parameter type", id |-> 0]

\* body.ok: the body decodes as JSON into a TaskRequest
HandleCreateTask(db, ctx, body) ==
    IF ~body.ok
    THEN [resp |-> Resp(400, "json_error", "invalid request sent", {}), db |-> db]
    ELSE LET input == body.input
             errs == validateTaskInput(input, "create")
             dueDate == IF input.due_date # ""
                        THEN ValidTime(ParseRFC3339(input.due_date).time)
                        ELSE NullTime
             task == [NewTask(0, input.name, input.description, input.category,
                              input.is_complete, dueDate)
                      EXCEPT !.created_at = ValidTime(db.now),
                             !.updated_at = ValidTime(db.now)]
             r == CreateTask(db, task)
         IN  IF errs # {}
             THEN [resp |-> Resp(400, "json_errors", "", errs), db |-> db]
             ELSE IF r.err # NoErr
             THEN [resp |-> Resp(500, "json_error", "failed to create task", {}),
                   db |-> r.db]
             ELSE [resp |-> Resp(201, "json_task", "", r.task), db |-> r.db]

HandleDeleteTaskByID(db, ctx, idp) ==
    IF ~idp.parses \/ idp.n <= 0
    THEN [resp |-> Resp(404, "text", "404 page not found", {}), db |-> db]
    ELSE LET r == DeleteTaskUnscoped(db, idp.n)
         IN  IF r.err = ErrNoRows
             THEN [resp |-> Resp(404, "text", "Error: task not found", {}),
                   db |-> r.db]
             ELSE IF r.err # NoErr
             THEN [resp |-> Resp(500, "text", "Error: deleting task", {}),
                   db |-> r.db]
             ELSE [resp |-> Resp(204, "empty", "", {}), db |-> r.db]

\* HandleUpdateTaskByID writing every field of the body, supplied or not
HandleUpdateTaskByIDWhole(db, ctx, idp, body) ==
    LET p == ReadIDParam(idp)
        got == GetTaskByIDUnscoped(db, p.id)
        existing == CHOOSE t \in got.task : TRUE
        merged == [existing EXCEPT
                     !.name = derefString(body.name),
                     !.description = derefString(body.description),
                     !.category = derefString(body.category),
                     !.is_complete = body.is_complete = {TRUE},
                     !.due_date = IF body.due_date # {}
                              THEN CHOOSE x \in body.due_date : TRUE
                              ELSE NullTime,
                     !.updated_at = ValidTime(db.now)]
        r == UpdateTaskUnscoped(db, {merged})
    IN  IF p.err # NoErr \/ got.task = {} \/ ~body.ok
        THEN [resp |-> Resp(400, "json_error", "invalid request sent", {}),
              db |-> db]
        ELSE IF r.err # NoErr
        THEN [resp |-> Resp(500, "json_error", "could not update task", {}),
              db |-> r.db]
        ELSE [resp |-> Resp(200, "json_task", "", {merged}), db |-> r.db]

\* HandleUpdateTaskByID from the decoding of the body on, with the task
\* GetTaskByID returned
\* body.ok: the body decodes as JSON; every field of the body is a pointer
UpdateFetched(db, existing, body) ==
    LET taskReq == TaskRequest(derefString(body.name), <<>>,
                               derefString(body.category), FALSE,
                               derefNullTime(body.due_date))
        errs == validateTaskInput(taskReq, "update")
        merged == [existing EXCEPT
                     !.name = IF body.name # {}
                              THEN CHOOSE x \in body.name : TRUE ELSE @,
                     !.description = IF body.description # {}
                              THEN CHOOSE x \in body.description : TRUE ELSE @,
                     !.category = IF body.category # {}
                              THEN CHOOSE x \in body.category : TRUE ELSE @,
                     !.is_complete = IF body.is_complete # {}
                              THEN CHOOSE x \in body.is_complete : TRUE ELSE @,
                     !.due_date = IF body.due_date # {}
                              THEN CHOOSE x \in body.due_date : TRUE ELSE @,
                     !.updated_at = ValidTime(db.now)]
        r == UpdateTaskUnscoped(db, {merged})
    IN  IF ~body.ok
        THEN [resp |-> Resp(400, "json_error", "invalid request payload", {}),
              db |-> db]
        ELSE IF errs # {}
        THEN [resp |-> Resp(400, "json_errors", "", errs), db |-> db]
        ELSE IF r.err # NoErr
        THEN [resp |-> Resp(500, "json_error", "could not update task", {}),
              db |-> r.db]
        ELSE [resp |-> Resp(200, "json_task", "", {merged}), db |-> r.db]

HandleUpdateTaskByID(db, ctx, idp, body) ==
    LET p == ReadIDParam(idp)
        got == GetTaskByIDUnscoped(db, p.id)
    IN  IF p.err # NoErr
        THEN [resp |-> Resp(400, "json_error", "invalid request sent", {}),
              db |-> db]
        ELSE IF got.err # NoErr
        THEN [resp |-> Resp(500, "json_error", "internal server error", {}),
              db |-> db]
        ELSE IF got.task = {}
        THEN [resp |-> Resp(404, "json_error", "task not found", {}), db |-> db]
        ELSE UpdateFetched(db, CHOOSE t \in got.task : TRUE, body)

HandleGetTaskByID(db, ctx, idp) ==
    LET p == ReadIDParam(idp)
        got == GetTaskByIDUnscoped(db, p.id)
    IN  IF p.err # NoErr
        THEN [resp |-> Resp(400, "json_error", "invalid request sent", {}),
              db |-> db]
        ELSE IF got.err # NoErr
        THEN [resp |-> Resp(500, "json_error", "could not retrieve task", {}),
              db |-> db]
        ELSE [resp |-> Resp(200, "json_task", "", got.task), db |-> db]

(***************************************************************************)
(* User handlers.                                                          *)
(***************************************************************************)
\* utils.HashPassword: bcrypt, opaque and never the password itself
HashPassword(password) == <<"bcrypt">> \o password

validateUserInput(input, mode) ==
    IF mode # "create" THEN {}
    ELSE (IF TrimSpace(input.username) = <<>>
          THEN {<<"username", "username is required">>}
          ELSE IF Len(input.username) > MaxUsernameLen
          THEN {<<"username", "username must be less than 50 characters">>}
          ELSE {})
         \cup
         (IF TrimSpace(input.password) = <<>>
          THEN {<<"password", "password is required">>}
          ELSE IF Len(input.password) < MinPasswordLen
          THEN {<<"password", "password must be at least 8 characters">>}
          ELSE {})

\* raw is the token GenerateToken draws for this request
HandleRegisterUser(db, body, raw) ==
    IF ~body.ok
    THEN [resp |-> Resp(400, "json_error", "invalid request body", {}), db |-> db]
    ELSE LET input == body.input
             errs == validateUserInput(input, "create")
             user == NewUser(input.username, input.email,
                             HashPassword(input.password))
             r == RegisterUser(db, user)
             created == CHOOSE u \in r.user : TRUE
             g == GenerateToken(r.db, created.id, RegisterTTL, "auth", raw)
         IN  IF errs # {}
             THEN [resp |-> Resp(400, "json_errors", "", errs), db |-> db]
             ELSE IF r.err # NoErr
             THEN [resp |-> Resp(500, "json_error", "failed to create user", {}),
                   db |-> r.db]
             ELSE IF g.err # NoErr
             THEN [resp |-> Resp(500, "json_error", "failed to generate token", {}),
                   db |-> g.db]
             ELSE [resp |-> Resp(201, "json_user", "",
                                 {[id |-> created.id,
                                   username |-> created.username,
                                   email |-> created.email,
                                   token |-> g.token]}),
                   db |-> g.db]

HandleDeleteUser(db, ctx) ==
    LET user == GetUser(ctx)
        r == DeleteUser(db, (CHOOSE u \in user : TRUE).id)
    IN  IF user = {}
        THEN [resp |-> Resp(401, "json_error", "not authenticated", {}), db |-> db]
        ELSE IF r.err # NoErr
        THEN [resp |-> Resp(500, "json_error", "failed to delete user", {}),
              db |-> r.db]
        ELSE [resp |-> Resp(200, "json_message", "user deleted successfully", {}),
              db |-> r.db]

\* HandleUpdateUser hashing the password of the body even when it is empty
HandleUpdateUserRehash(db, ctx, body) ==
    LET user == GetUser(ctx)
        input == body.input
        u0 == CHOOSE u \in user : TRUE
        u1 == [u0 EXCEPT !.username = input.username, !.email = input.email,
                         !.password_hash = HashPassword(input.password)]
        r == UpdateUser(db, {u1})
    IN  IF user = {}
        THEN [resp |-> Resp(401, "json_error", "not authenticated", {}), db |-> db]
        ELSE IF ~body.ok
        THEN [resp |-> Resp(400, "json_error", "invalid request body", {}),
              db |-> db]
        ELSE IF r.err # NoErr
        THEN [resp |-> Resp(500, "json_error", "failed to update user", {}),
              db |-> r.db]
        ELSE [resp |-> Resp(200, "json_user", "",
                            {[id |-> u1.id, username |-> u1.username,
                              email |-> u1.email]}),
              db |-> r.db]

HandleUpdateUser(db, ctx, body) ==
    LET user == GetUser(ctx)
        input == body.input
        errs == validateUserInput(input, "update")
        u0 == CHOOSE u \in user : TRUE
        u1 == [u0 EXCEPT !.username = input.username, !.email = input.email,
                         !.password_hash = IF input.password # <<>>
                                           THEN HashPassword(input.password)
                                           ELSE @]
        r == UpdateUser(db, {u1})
    IN  IF user = {}
        THEN [resp |-> Resp(401, "json_error", "not authenticated", {}), db |-> db]
        ELSE IF ~body.ok
        THEN [resp |-> Resp(400, "json_error", "invalid request body", {}),
              db |-> db]
        ELSE IF errs # {}
        THEN [resp |-> Resp(400, "json_errors", "", errs), db |-> db]
        ELSE IF r.err # NoErr
        THEN [resp |-> Resp(500, "json_error", "failed to update user", {}),
              db |-> r.db]
        ELSE [resp |-> Resp(200, "json_user", "",
                            {[id |-> u1.id, username |-> u1.username,
                              email |-> u1.email]}),
              db |-> r.db]

(***************************************************************************)
(* Inputs.                                                                 *)
(***************************************************************************)
\* what rand.Read may produce
RawTokens == {"k1", "k2"}
\* what a client may present as its bearer token: raw tokens and the hash
\* of one, as read from the tokens table
PresentedTokens == RawTokens \cup {HashToken("k1")}
Scopes == {"auth", "reset"}
TTLs == {0, RegisterTTL}

\* Authorization headers: absent, well formed, and malformed in several ways
Headers ==
    {<<>>, <<"Bearer">>, <<"Bearer", " ">>, <<"Bearer", " ", " ", "k1">>,
     <<"Bearer", " ", "k1", " ">>, <<"Basic", " ", "k1">>, <<"k1">>,
     <<"bearer", " ", "k1">>}
    \cup {<<"Bearer", " ", t>> : t \in PresentedTokens}

\* the headers of clients that hold a token or none
ClientHeaders == {<<>>} \cup {<<"Bearer", " ", t>> : t \in RawTokens}

\* a request as the middleware sees it: its header, and whether the
\* database answers the token query
AuthCases == {<<h, TRUE>> : h \in Headers} \cup {<<<<"Bearer", " ", "k1">>, FALSE>>}
ClientCases == {<<h, TRUE>> : h \in ClientHeaders}

Alice == <<"a">>
Bob == <<"b">>
Password == <<"p", "a", "s", "s", "w", "o", "r", "d">>
Email(username) == username \o <<"@">>

UserBody(username, email, password) ==
    [ok |-> TRUE,
     input |-> [username |-> username, email |-> email, password |-> password]]
BadBody == [ok |-> FALSE,
            input |-> [username |-> <<>>, email |-> <<>>, password |-> <<>>]]

\* request bodies of POST /users: two people, and bodies that are refused
PeopleBodies == {UserBody(n, Email(n), Password) : n \in {Alice, Bob}}
RegisterBodies ==
    PeopleBodies \cup {UserBody(Alice, Email(Bob), Password),
                       UserBody(Alice, Email(Alice), <<"p">>), BadBody}

\* request bodies of PUT /users/me
UpdateUserBodies ==
    {UserBody(Bob, Email(Bob), <<>>), UserBody(Alice, Email(Alice), Password),
     BadBody}

\* request bodies of PUT /users/me: a new name without a password, a new
\* password, and an undecodable body
MeBodies ==
    {UserBody(<<"c">>, Email(<<"c">>), <<>>),
     UserBody(Alice, Email(Alice), <<"n">> \o Password), BadBody}

\* request bodies of POST /tasks
CreateTaskBodies ==
    {[ok |-> TRUE, input |-> TaskRequest(n, <<>>, <<"h">>, FALSE, "")] :
        n \in {<<>>, <<"a">>}}
    \cup {[ok |-> FALSE, input |-> TaskRequest(<<>>, <<>>, <<>>, FALSE, "")]}

\* a text of n characters
Text(n) == [i \in 1 .. n |-> "x"]

\* request bodies of POST /tasks around the validation rules: blank names,
\* and each text field at and over its limit
LimitBodies ==
    {[ok |-> TRUE, input |-> TaskRequest(n, <<>>, <<"h">>, FALSE, "")] :
        n \in {<<>>, <<" ">>, <<" ", "\t">>, Text(1), Text(NameColumnLen),
               Text(NameColumnLen + 1), Text(MaxNameLen),
               Text(MaxNameLen + 1)}}
    \cup {[ok |-> TRUE, input |-> TaskRequest(<<"a">>, d, <<>>, FALSE, "")] :
        d \in {Text(DescriptionColumnLen), Text(DescriptionColumnLen + 1)}}
    \cup {[ok |-> TRUE, input |-> TaskRequest(<<"a">>, <<>>, c, FALSE, "")] :
        c \in {Text(MaxCategoryLen), Text(MaxCategoryLen + 1)}}

TaskPatch(name, isComplete) ==
    [ok |-> TRUE, name |-> name, description |-> {}, category |-> {},
     is_complete |-> isComplete, due_date |-> {}]
BadPatch == [TaskPatch({}, {}) EXCEPT !.ok = FALSE]

\* request bodies of PUT /tasks/{id}
UpdateTaskBodies == {TaskPatch({}, {TRUE}), TaskPatch({<<"b">>}, {}), BadPatch}

\* request bodies of PUT /tasks/{id} supplying one field each
OneFieldPatches ==
    {TaskPatch({}, {TRUE}), TaskPatch({<<"b">>}, {}), TaskPatch({<<>>}, {}),
     [TaskPatch({}, {}) EXCEPT !.description = {<<"d">>}],
     [TaskPatch({}, {}) EXCEPT !.category = {<<>>}],
     BadPatch}
    \cup {[TaskPatch({}, {}) EXCEPT !.due_date = {ValidTime(t)}] :
             t \in DOMAIN TimeText}

\* the {id} of a task route: a number, or text strconv.ParseInt refuses
IdParam(n) == [parses |-> TRUE, n |-> n]
NoId == [parses |-> FALSE, n |-> 0]
TaskIds == {IdParam(1), IdParam(MaxTaskID + 1), NoId}

\* the db.Task values store callers pass
StoreTasks ==
    {NewTask(u, n, <<>>, <<"h">>, FALSE, NullTime) :
        u \in 0 .. MaxUserID, n \in {<<>>, <<"a">>}}

\* names without a visible character: empty, a space, a tab
BlankNames == {<<>>, <<" ">>, <<"\t">>}

\* the db.Task values of user 1 with a blank or a plain name
NamedTasks ==
    {NewTask(1, n, <<>>, <<"h">>, FALSE, NullTime) :
        n \in BlankNames \cup {<<"a">>}}

\* the *db.Task values that rename task 1 of user 1
NamedUpdates == {{[t EXCEPT !.id = 1]} : t \in NamedTasks}

\* request bodies of PUT /tasks/{id} supplying a blank name
NamePatches == {TaskPatch({n}, {}) : n \in BlankNames}

\* the db.User values store callers pass to RegisterUser
StoreUsers ==
    {NewUser(n, Email(e), HashPassword(Password)) :
        n \in {Alice, Bob}, e \in {Alice, Bob}}

\* the *db.User values store callers pass to UpdateUser
StoreUserUpdates ==
    {{}} \cup {{[u EXCEPT !.id = id]} :
                 u \in StoreUsers, id \in 1 .. MaxUserID + 1}

\* the db.Task values store callers pass to UpdateTask
StoreUpdates ==
    {{}} \cup {{[NewTask(u, n, <<>>, <<"h">>, TRUE, NullTime) EXCEPT !.id = id]} :
                 u \in 1 .. MaxUserID, n \in {<<>>, <<"b">>},
                 id \in 1 .. MaxTaskID}

(***************************************************************************)
(* Actions.  last records the operation a step performed: its inputs and   *)
(* what it returned.  issued records the tokens POST /users handed out.    *)
(***************************************************************************)
Commit(db) ==
    /\ users' = db.users
    /\ nextUserID' = db.nextUserID
    /\ tasks' = db.tasks
    /\ nextTaskID' = db.nextTaskID
    /\ tokens' = db.tokens
    /\ now' = db.now

Init ==
    /\ users = {}
    /\ nextUserID = 1
    /\ tasks = {}
    /\ nextTaskID = 1
    /\ tokens = {}
    /\ now = 0
    /\ issued = {}
    /\ last = [op |-> "init"]
    /\ pending = {}

\* the clock advances
Tick ==
    /\ now + TickHours <= MaxTime
    /\ now' = now + TickHours
    /\ last' = [op |-> "Tick"]
    /\ UNCHANGED <<users, nextUserID, tasks, nextTaskID, tokens, issued,
                   pending>>

(***************************************************************************)
(* Calls of the stores' methods.                                           *)
(***************************************************************************)
CallRegisterUser(names) ==
    \E un \in names :
        \E r \in {RegisterUser(DB, NewUser(un, Email(un), HashPassword(Password)))} :
            /\ nextUserID <= MaxUserID
            /\ Commit(r.db)
            /\ last' = [op |-> "RegisterUser", err |-> r.err, user |-> r.user]
            /\ UNCHANGED <<issued, pending>>

CallRegisterUserWith(inputs) ==
    \E user \in inputs :
        \E r \in {RegisterUser(DB, user)} :
            /\ nextUserID <= MaxUserID
            /\ Commit(r.db)
            /\ last' = [op |-> "RegisterUser", in |-> user, err |-> r.err,
                        user |-> r.user]
            /\ UNCHANGED <<issued, pending>>

CallUpdateUser(inputs) ==
    \E user \in inputs :
        \E r \in {UpdateUser(DB, user)} :
            /\ Commit(r.db)
            /\ last' = [op |-> "UpdateUser", in |-> user, err |-> r.err]
            /\ UNCHANGED <<issued, pending>>

CallDeleteUser ==
    \E id \in 1 .. MaxUserID :
        \E r \in {DeleteUser(DB, id)} :
            /\ Commit(r.db)
            /\ last' = [op |-> "DeleteUser", id |-> id, err |-> r.err]
            /\ UNCHANGED <<issued, pending>>

CallCreateTask ==
    \E task \in StoreTasks :
        \E r \in {CreateTask(DB, task)} :
            /\ nextTaskID <= MaxTaskID
            /\ Commit(r.db)
            /\ last' = [op |-> "CreateTask", in |-> task, err |-> r.err,
                        task |-> r.task]
            /\ UNCHANGED <<issued, pending>>

CallCreateTaskWith(inputs) ==
    \E task \in inputs :
        \E r \in {CreateTask(DB, task)} :
            /\ nextTaskID <= MaxTaskID
            /\ Commit(r.db)
            /\ last' = [op |-> "CreateTask", in |-> task, err |-> r.err,
                        task |-> r.task]
            /\ UNCHANGED <<issued, pending>>

CallUpdateTaskWith(inputs) ==
    \E task \in inputs :
        \E r \in {UpdateTask(DB, task)} :
            /\ Commit(r.db)
            /\ last' = [op |-> "UpdateTask", in |-> task, err |-> r.err]
            /\ UNCHANGED <<issued, pending>>

CallGetTaskByID ==
    \E id \in 1 .. MaxTaskID, userID \in 1 .. MaxUserID :
        \E r \in {GetTaskByID(DB, id, userID)} :
            /\ last' = [op |-> "GetTaskByID", id |-> id, user_id |-> userID,
                        err |-> r.err, task |-> r.task]
            /\ UNCHANGED <<users, nextUserID, tasks, nextTaskID, tokens, now,
                           issued, pending>>

CallUpdateTask ==
    \E task \in StoreUpdates :
        \E r \in {UpdateTask(DB, task)} :
            /\ Commit(r.db)
            /\ last' = [op |-> "UpdateTask", in |-> task, err |-> r.err]
            /\ UNCHANGED <<issued, pending>>

CallDeleteTask ==
    \E id \in 1 .. MaxTaskID, userID \in 1 .. MaxUserID :
        \E r \in {DeleteTask(DB, id, userID)} :
            /\ Commit(r.db)
            /\ last' = [op |-> "DeleteTask", id |-> id, user_id |-> userID,
                        err |-> r.err]
            /\ UNCHANGED <<issued, pending>>

CallGenerateToken ==
    \E userID \in 1 .. MaxUserID, ttl \in TTLs, scope \in Scopes,
       raw \in RawTokens :
        \E r \in {GenerateToken(DB, userID, ttl, scope, raw)} :
            /\ Commit(r.db)
            /\ last' = [op |-> "GenerateToken", user_id |-> userID,
                        ttl |-> ttl, scope |-> scope, err |-> r.err,
                        token |-> r.token]
            /\ UNCHANGED <<issued, pending>>

CallGenerateTokenWith(ttls, scopes, raws) ==
    \E userID \in 1 .. MaxUserID, ttl \in ttls, scope \in scopes,
       raw \in raws :
        \E r \in {GenerateToken(DB, userID, ttl, scope, raw)} :
            /\ Commit(r.db)
            /\ last' = [op |-> "GenerateToken", user_id |-> userID,
                        ttl |-> ttl, scope |-> scope, err |-> r.err,
                        token |-> r.token]
            /\ UNCHANGED <<issued, pending>>

CallGetUserByToken ==
    \E token \in PresentedTokens, scope \in Scopes, dbOk \in BOOLEAN :
        \E r \in {GetUserByToken(DB, token, scope, dbOk)} :
            /\ last' = [op |-> "GetUserByToken", token |-> token,
                        scope |-> scope, dbOk |-> dbOk, err |-> r.err,
                        user |-> r.user]
            /\ UNCHANGED <<users, nextUserID, tasks, nextTaskID, tokens, now,
                           issued, pending>>

(***************************************************************************)
(* HTTP requests: the route's middleware stack, then its handler.          *)
(***************************************************************************)
NoBody == [ok |-> FALSE]

\* the handler SetupRoutes registers for the route
Handler(route, db, ctx, idp, body, raw) ==
    CASE route = "POST /tasks" -> HandleCreateTask(db, ctx, body)
      [] route = "PUT /tasks/{id}" -> HandleUpdateTaskByID(db, ctx, idp, body)
      [] route = "DELETE /tasks/{id}" -> HandleDeleteTaskByID(db, ctx, idp)
      [] route = "GET /tasks/{id}" -> HandleGetTaskByID(db, ctx, idp)
      [] route = "POST /users" -> HandleRegisterUser(db, body, raw)
      [] route = "DELETE /users/me" -> HandleDeleteUser(db, ctx)
      [] route = "PUT /users/me" -> HandleUpdateUser(db, ctx, body)

\* what the server does with one request on db
\* s: what the middleware stack did; h: what the handler does when reached
Outcome(db, s, h) ==
    [resp |-> IF s.reached THEN h.resp ELSE s.resp,
     db |-> IF s.reached THEN h.db ELSE db,
     reached |-> s.reached, ran |-> s.ran, queries |-> s.queries,
     ctx |-> s.ctx, vary |-> s.vary]

Handled(db, s, route, idp, body, raw) ==
    Outcome(db, s, Handler(route, db, s.ctx, idp, body, raw))

ServeHTTP(db, route, header, idp, body, raw, dbOk) ==
    Handled(db, Serve(Middlewares(route), db,
                      [header |-> header, ctx |-> EmptyCtx], dbOk),
            route, idp, body, raw)

Request(route, header, idp, body, raw, dbOk) ==
    \E o \in {ServeHTTP(DB, route, header, idp, body, raw, dbOk)} :
        /\ Commit(o.db)
        /\ last' = [op |-> "HTTP", route |-> route, header |-> header,
                    idp |-> idp, body |-> body, dbOk |-> dbOk,
                    resp |-> o.resp, reached |-> o.reached, ran |-> o.ran,
                    queries |-> o.queries, ctx |-> o.ctx, vary |-> o.vary]
        /\ issued' =
             IF route = "POST /users" /\ o.resp.status = 201
             THEN issued \cup {[token |-> u.token, user_id |-> u.id,
                                at |-> now] : u \in o.resp.data}
             ELSE issued
        /\ UNCHANGED pending

PostUsers(bodies) ==
    \E body \in bodies, raw \in RawTokens :
        /\ nextUserID <= MaxUserID
        /\ Request("POST /users", <<>>, NoId, body, raw, TRUE)

PutUsersMe(cases, bodies) ==
    \E c \in cases, body \in bodies :
        Request("PUT /users/me", c[1], NoId, body, "", c[2])

DeleteUsersMe(cases) ==
    \E c \in cases :
        Request("DELETE /users/me", c[1], NoId, NoBody, "", c[2])

PostTasks(cases, bodies) ==
    \E c \in cases, body \in bodies :
        /\ nextTaskID <= MaxTaskID
        /\ Request("POST /tasks", c[1], NoId, body, "", c[2])

GetTasksID(cases, ids) ==
    \E c \in cases, idp \in ids :
        Request("GET /tasks/{id}", c[1], idp, NoBody, "", c[2])

PutTasksID(cases, ids, bodies) ==
    \E c \in cases, idp \in ids, body \in bodies :
        Request("PUT /tasks/{id}", c[1], idp, body, "", c[2])

\* GET /tasks/{id} behind the middleware stack mws instead of the route's own
GetTasksIDBehind(mws, cases, ids) ==
    \E c \in cases, idp \in ids :
        \E s \in {Serve(mws, DB, [header |-> c[1], ctx |-> EmptyCtx], c[2])} :
            \E o \in {Handled(DB, s, "GET /tasks/{id}", idp, NoBody, "")} :
                /\ Commit(o.db)
                /\ last' = [op |-> "HTTP behind", mws |-> mws,
                            route |-> "GET /tasks/{id}", header |-> c[1],
                            idp |-> idp, dbOk |-> c[2], resp |-> o.resp,
                            reached |-> o.reached, ran |-> o.ran,
                            ctx |-> o.ctx]
                /\ UNCHANGED <<issued, pending>>

\* HandleUpdateTaskByID in its two steps on the store.  The first is the
\* request up to the task GetTaskByID returns: pending keeps the requests
\* that have read their task and not yet written it.
PutTasksRead(cases, ids, bodies) ==
    \E c \in cases, idp \in ids, body \in bodies :
        \E s \in {Serve(Middlewares("PUT /tasks/{id}"), DB,
                        [header |-> c[1], ctx |-> EmptyCtx], c[2])},
           got \in {GetTaskByIDUnscoped(DB, ReadIDParam(idp).id)} :
            /\ Cardinality(pending) < MaxPending
            /\ s.reached
            /\ ReadIDParam(idp).err = NoErr
            /\ got.err = NoErr
            /\ got.task # {}
            /\ pending' = pending \cup
                    {[header |-> c[1], idp |-> idp, body |-> body,
                      existing |-> t] : t \in got.task}
            /\ last' = [op |-> "PUT read", header |-> c[1], idp |-> idp,
                        body |-> body, task |-> got.task]
            /\ UNCHANGED <<users, nextUserID, tasks, nextTaskID, tokens, now,
                           issued>>

\* the second step: the rest of the handler, on the store as it is now
PutTasksWrite ==
    \E q \in pending :
        \E o \in {UpdateFetched(DB, q.existing, q.body)} :
            /\ Commit(o.db)
            /\ pending' = pending \ {q}
            /\ last' = [op |-> "PUT write", header |-> q.header,
                        idp |-> q.idp, body |-> q.body,
                        existing |-> q.existing, resp |-> o.resp]
            /\ UNCHANGED issued

DeleteTasksID(cases, ids) ==
    \E c \in cases, idp \in ids :
        Request("DELETE /tasks/{id}", c[1], idp, NoBody, "", c[2])

(***************************************************************************)
(* Specifications.                                                         *)
(***************************************************************************)
\* the task store under calls of its methods
NextStore ==
    \/ CallRegisterUser({Alice, Bob})
    \/ CallDeleteUser
    \/ CallCreateTask
    \/ CallGetTaskByID
    \/ CallUpdateTask
    \/ CallDeleteTask

SpecStore == Init /\ [][NextStore]_vars

\* the token store under calls of its methods, with the clock
NextToken ==
    \/ Tick
    \/ CallRegisterUser({Alice})
    \/ CallDeleteUser
    \/ CallGenerateToken
    \/ CallGetUserByToken
    \/ GetTasksID(AuthCases, {IdParam(1)})

SpecToken == Init /\ [][NextToken]_vars

\* registration and the middleware stack of the protected routes
NextAuth ==
    \/ Tick
    \/ PostUsers(PeopleBodies)
    \/ GetTasksID(AuthCases, {IdParam(1)})
    \/ PostTasks(ClientCases, {[ok |-> TRUE,
                   input |-> TaskRequest(<<"a">>, <<>>, <<"h">>, FALSE, "")]})
    \/ PutTasksID(ClientCases, {IdParam(1)}, {TaskPatch({}, {TRUE})})
    \/ DeleteTasksID(ClientCases, {IdParam(1)})
    \/ PutUsersMe(ClientCases, {UserBody(Bob, Email(Bob), <<>>)})
    \/ DeleteUsersMe(ClientCases)

SpecAuth == Init /\ [][NextAuth]_vars

\* users with tasks and tokens, deleted through the store and through
\* DELETE /users/me, and the requests that follow
\* updates of stored tasks: through PUT /tasks/{id} and through the store
NextUpdate ==
    \/ PostUsers({UserBody(Alice, Email(Alice), Password)})
    \/ CallCreateTask
    \/ PutTasksID(ClientCases, {IdParam(1)}, OneFieldPatches)
    \/ CallUpdateTask

SpecUpdate == Init /\ [][NextUpdate]_vars

\* tasks named and renamed with blank names, through the store and through
\* PUT /tasks/{id}
NextNames ==
    \/ PostUsers({UserBody(Alice, Email(Alice), Password)})
    \/ CallCreateTaskWith(NamedTasks)
    \/ CallUpdateTaskWith(NamedUpdates)
    \/ PutTasksID(ClientCases, {IdParam(1)}, NamePatches)

SpecNames == Init /\ [][NextNames]_vars

\* PUT /tasks/{id} requests of the owner running at the same time
NextRace ==
    \/ Tick
    \/ PostUsers({UserBody(Alice, Email(Alice), Password)})
    \/ CallCreateTaskWith({NewTask(1, <<"a">>, <<>>, <<"h">>, FALSE, NullTime)})
    \/ PutTasksRead(ClientCases, {IdParam(1)},
                    {TaskPatch({}, {TRUE}), TaskPatch({<<"b">>}, {})})
    \/ PutTasksWrite

SpecRace == Init /\ [][NextRace]_vars

\* the two middlewares in the order of SetupRoutes and in the other order
NextOrder ==
    \/ Tick
    \/ PostUsers(PeopleBodies)
    \/ CallCreateTask
    \/ GetTasksID(ClientCases, {IdParam(1)})
    \/ GetTasksIDBehind(<<"RequireUser", "Authenticate">>, AuthCases,
                        {IdParam(1)})

SpecOrder == Init /\ [][NextOrder]_vars

\* the three stores side by side: users come and go while tasks and tokens
\* are written for them
NextRefs ==
    \/ CallRegisterUser({Alice, Bob})
    \/ CallDeleteUser
    \/ CallCreateTaskWith({NewTask(u, <<"a">>, <<>>, <<"h">>, FALSE, NullTime) :
                              u \in 1 .. MaxUserID})
    \/ CallUpdateTaskWith({{[NewTask(u, <<"b">>, <<>>, <<"h">>, TRUE, NullTime)
                               EXCEPT !.id = 1]} : u \in 1 .. MaxUserID})
    \/ CallDeleteTask
    \/ CallGenerateTokenWith({RegisterTTL}, {"auth"}, {"k1"})

SpecRefs == Init /\ [][NextRefs]_vars

\* the routes of the caller's own account, among users that have tasks
NextMe ==
    \/ PostUsers(PeopleBodies)
    \/ CallCreateTaskWith({NewTask(u, <<"a">>, <<>>, <<"h">>, FALSE, NullTime) :
                              u \in 1 .. MaxUserID})
    \/ PutUsersMe(ClientCases, MeBodies)
    \/ DeleteUsersMe(ClientCases)

SpecMe == Init /\ [][NextMe]_vars

\* the user store alone
NextUsers ==
    \/ Tick
    \/ CallRegisterUserWith(StoreUsers)
    \/ CallUpdateUser(StoreUserUpdates)
    \/ CallDeleteUser

SpecUsers == Init /\ [][NextUsers]_vars

\* task creation: through POST /tasks and through the store
NextCreate ==
    \/ PostUsers(PeopleBodies)
    \/ CallCreateTask
    \/ PostTasks(ClientCases, LimitBodies)

SpecCreate == Init /\ [][NextCreate]_vars

NextCascade ==
    \/ PostUsers(PeopleBodies)
    \/ CallCreateTask
    \/ CallDeleteUser
    \/ DeleteUsersMe(ClientCases)
    \/ GetTasksID(ClientCases, {IdParam(1)})

SpecCascade == Init /\ [][NextCascade]_vars

\* the server's task routes, with tasks put in the table by the task store
Next ==
    \/ PostUsers(PeopleBodies)
    \/ CallCreateTask
    \/ PostTasks(ClientCases, CreateTaskBodies)
    \/ GetTasksID(ClientCases, TaskIds)
    \/ PutTasksID(ClientCases, {IdParam(1)}, UpdateTaskBodies)
    \/ DeleteTasksID(ClientCases, TaskIds)
    \/ DeleteUsersMe(ClientCases)

Spec == Init /\ [][Next]_vars

(***************************************************************************)
(* Properties.                                                             *)
(***************************************************************************)
\* the step called a task-store method for task row T on behalf of a user
\* that is not T's owner
CrossUserCall(T) ==
    \/ /\ last'.op \in {"GetTaskByID", "DeleteTask"}
       /\ last'.id = T.id
       /\ last'.user_id # T.user_id
    \/ /\ last'.op = "UpdateTask"
       /\ \E in \in last'.in : in.id = T.id /\ in.user_id # T.user_id

\* C1: for every task T and every user other than T's owner, GetTaskByID,
\* UpdateTask and DeleteTask called with T's id and that user's id report
\* ErrTaskNotFound, return no task, and leave the tasks table as it was.
C1_CrossUserNotFound ==
    [][\A T \in tasks :
          CrossUserCall(T) =>
              /\ last'.err = ErrTaskNotFound
              /\ last'.op = "GetTaskByID" => last'.task = {}
              /\ tasks' = tasks]_vars

\* a DeleteTask by an existing user that is not the owner of the task
C1_Witness ==
    /\ last.op = "DeleteTask"
    /\ last.err = ErrTaskNotFound
    /\ last.user_id \in UserIDs(DB)
    /\ \E T \in tasks : T.id = last.id /\ T.user_id # last.user_id

\* the raw tokens whose hash is the token column of row t
RawOf(t) == {k \in PresentedTokens : HashToken(k) = t.token}

\* GetUserByToken finds a user for token row t under the row's own scope
Resolves(t) ==
    \E k \in RawOf(t) : GetUserByToken(DB, k, t.scope, TRUE).user # {}

\* the token rows that hold hash h for user id: at most one, and no other
\* row ever takes its place, as a deleted user's id is not given out again
RowsOf(h, id) == {t \in tokens : t.token = h /\ t.user_id = id}

\* C4: GetUserByToken returns no user for a token whose row is in the table
\* with expiry <= now, and a token that has reached its expiry does not
\* resolve in any later state.
C4_ExpiredNeverResolves ==
    /\ [](\A t \in tokens : t.expiry <= now => ~Resolves(t))
    /\ [](last.op = "GetUserByToken" =>
            \A t \in tokens :
                t.token = HashToken(last.token) /\ t.expiry <= now
                    => last.user = {})
    /\ \A k \in RawTokens : \A id \in 1 .. MaxUserID :
          []((\E t \in RowsOf(HashToken(k), id) : t.expiry <= now) =>
                [](\A t \in RowsOf(HashToken(k), id) : ~Resolves(t)))

\* a call for a token of an existing user, made at the instant of its expiry
\* and under its scope, found no user
C4_Witness ==
    /\ last.op = "GetUserByToken"
    /\ last.dbOk
    /\ last.user = {}
    /\ now > 0
    /\ \E t \in tokens :
          /\ t.token = HashToken(last.token)
          /\ t.scope = last.scope
          /\ t.user_id \in UserIDs(DB)
          /\ t.expiry = now

\* C5: a token row of scope "auth" resolves under no other scope, and a
\* request whose bearer token has a row of another scope is answered 401 by
\* Authenticate and reaches no handler.
C5_ScopeSeparation ==
    /\ \A t \in tokens : \A k \in RawOf(t) : \A s \in Scopes \ {t.scope} :
          GetUserByToken(DB, k, s, TRUE).user = {}
    /\ last.op = "GetUserByToken" =>
          \A t \in tokens :
              t.token = HashToken(last.token) /\ t.scope # last.scope
                  => last.user = {}
    /\ last.op = "HTTP" =>
          \A t \in tokens : \A k \in RawOf(t) :
              last.header = <<"Bearer", " ", k>> /\ t.scope # "auth" =>
                  /\ last.resp.status = 401
                  /\ ~last.reached
                  /\ GetUser(last.ctx) = {}

\* a request carried the unexpired "reset" token of an existing user
C5_Witness ==
    /\ last.op = "HTTP"
    /\ last.resp.status = 401
    /\ \E t \in tokens : \E k \in RawOf(t) :
          /\ last.header = <<"Bearer", " ", k>>
          /\ t.scope = "reset"
          /\ t.expiry > now
          /\ t.user_id \in UserIDs(DB)

\* the routes SetupRoutes puts behind Authenticate and RequireUser
Protected == TaskRoutes \cup UserRoutes

\* the step served a request on a protected route
ProtectedRequest == last'.op = "HTTP" /\ last'.route \in Protected

\* the header is "Bearer <token>": two parts around one space, the first
\* part being the word Bearer
BearerShaped(h) ==
    /\ Len(h) \in {2, 3}
    /\ h[1] = "Bearer"
    /\ h[2] = " "
    /\ Len(h) = 3 => h[3] # " "

\* the token of a header that is "Bearer <token>"
BearerToken(h) == IF Len(h) = 3 THEN h[3] ELSE ""

\* C6: a request on a protected route that carries "Bearer K", where POST
\* /users returned K for user U less than RegisterTTL hours ago and U is
\* still in the users table, reaches its handler with U as the request's
\* user, provided the token query does not fail.
C6_IssuedTokenAuthenticates ==
    [][ProtectedRequest /\ last'.dbOk =>
          \A i \in issued : \A U \in users :
              /\ last'.header = <<"Bearer", " ", i.token>>
              /\ U.id = i.user_id
              /\ now < i.at + RegisterTTL
              => /\ last'.reached
                 /\ GetUser(last'.ctx) = {U}]_vars

\* with two users registered, the second one's token took a request to the
\* handler of PUT /tasks/{id} as the second user
C6_Witness ==
    /\ last.op = "HTTP"
    /\ last.route = "PUT /tasks/{id}"
    /\ last.reached
    /\ Cardinality(users) = 2
    /\ \E i \in issued :
          /\ last.header = <<"Bearer", " ", i.token>>
          /\ i.user_id = 2
          /\ \E U \in users : U.id = 2 /\ GetUser(last.ctx) = {U}

\* C7: on a protected route the handler is reached only with a user in the
\* request context; a request Authenticate let through without a user is
\* answered by RequireUser with 401 and its fixed message, the handler not
\* being called and the database left as it was; a request Authenticate let
\* through with a user reaches the handler with the context unchanged.
C7_HandlerNeedsUser ==
    [][ProtectedRequest =>
          LET a == Authenticate(DB, [header |-> last'.header, ctx |-> EmptyCtx],
                                last'.dbOk)
          IN  /\ last'.reached => GetUser(last'.ctx) # {} /\ a.next
              /\ a.next /\ GetUser(a.ctx) = {} =>
                    /\ ~last'.reached
                    /\ last'.ran = <<"Authenticate", "RequireUser">>
                    /\ last'.resp =
                         Resp(401, "json_error",
                              "you must be logged in to access this route", {})
                    /\ UNCHANGED <<users, tasks, tokens>>
              /\ a.next /\ GetUser(a.ctx) # {} =>
                    /\ last'.reached
                    /\ last'.ctx = a.ctx]_vars

\* DELETE /users/me without identity, with users registered: RequireUser
\* answered and every user is still there
C7_Witness ==
    /\ last.op = "HTTP"
    /\ last.route = "DELETE /users/me"
    /\ last.ran = <<"Authenticate", "RequireUser">>
    /\ last.resp.status = 401
    /\ ~last.reached
    /\ Cardinality(users) = 2

\* C8: a request whose Authorization header is present and is not
\* "Bearer <token>" is answered 401 by Authenticate, which makes no token
\* query and does not call the next handler.
C8_MalformedHeaderRejected ==
    last.op = "HTTP" /\ last.route \in Protected
        /\ last.header # <<>> /\ ~BearerShaped(last.header) =>
            /\ last.resp = Resp(401, "json_error",
                                "invalid authorization header", {})
            /\ last.queries = 0
            /\ last.ran = <<"Authenticate">>
            /\ ~last.reached

\* a header that holds a token POST /users issued to a user still
\* registered, followed by a space, was refused
C8_Witness ==
    /\ last.op = "HTTP"
    /\ last.resp.status = 401
    /\ last.queries = 0
    /\ \E i \in issued :
          /\ last.header = <<"Bearer", " ", i.token, " ">>
          /\ i.user_id \in UserIDs(DB)

\* the step served a request with a "Bearer <token>" header whose token
\* query fails or finds no user
FailedResolution ==
    /\ last'.op = "HTTP"
    /\ last'.route \in Protected
    /\ BearerShaped(last'.header)
    /\ LET r == GetUserByToken(DB, BearerToken(last'.header), "auth",
                               last'.dbOk)
       IN  r.err # NoErr \/ r.user = {}

\* C9: when the header is "Bearer <token>" and the token query fails or
\* finds no user, Authenticate answers 401 "invalid or expired token" and
\* does not call the next handler; the response is the same whatever made
\* the resolution fail.
C9_UniformRejection ==
    [][FailedResolution =>
          /\ last'.resp = Resp(401, "json_error", "invalid or expired token", {})
          /\ last'.ran = <<"Authenticate">>
          /\ ~last'.reached
          /\ \A c \in AuthCases :
                LET o == ServeHTTP(DB, last'.route, c[1], last'.idp,
                                   last'.body, "", c[2])
                    r == GetUserByToken(DB, BearerToken(c[1]), "auth", c[2])
                IN  BearerShaped(c[1]) /\ (r.err # NoErr \/ r.user = {})
                        => o.resp = last'.resp]_vars

\* a request with the expired "auth" token of an existing user was refused,
\* while the table also holds an unexpired token of another scope
C9_Witness ==
    /\ last.op = "HTTP"
    /\ last.dbOk
    /\ last.resp = Resp(401, "json_error", "invalid or expired token", {})
    /\ \E t \in tokens : \E k \in RawOf(t) :
          /\ last.header = <<"Bearer", " ", k>>
          /\ t.scope = "auth"
          /\ t.expiry <= now
          /\ t.user_id \in UserIDs(DB)
    /\ \E t \in tokens : t.scope = "reset" /\ t.expiry > now

\* C10: a request without Authorization header is not answered by
\* Authenticate: it makes no token query, attaches a context whose user is
\* nil, and calls the next handler once.
C10_AnonymousPassesAuthenticate ==
    /\ \A dbOk \in BOOLEAN :
          LET a == Authenticate(DB, [header |-> <<>>, ctx |-> EmptyCtx], dbOk)
          IN  /\ a.next
              /\ a.resp = NoResp
              /\ a.queries = 0
              /\ a.ctx.set
              /\ GetUser(a.ctx) = {}
    /\ last.op = "HTTP" /\ last.route \in Protected /\ last.header = <<>> =>
          /\ last.ran = <<"Authenticate", "RequireUser">>
          /\ last.queries = 0
          /\ last.ctx.set
          /\ GetUser(last.ctx) = {}
          /\ last.resp.msg # "invalid authorization header"
          /\ last.resp.msg # "invalid or expired token"

\* a request without header on GET /tasks/{id}, with a user registered,
\* went through Authenticate to RequireUser
C10_Witness ==
    /\ last.op = "HTTP"
    /\ last.route = "GET /tasks/{id}"
    /\ last.header = <<>>
    /\ last.ran = <<"Authenticate", "RequireUser">>
    /\ users # {}

\* the step served GET, PUT or DELETE /tasks/{id} for task row T to a
\* handler whose request user is not T's owner
NonOwnerRequest(T) ==
    /\ last'.op = "HTTP"
    /\ last'.route \in {"GET /tasks/{id}", "PUT /tasks/{id}",
                        "DELETE /tasks/{id}"}
    /\ last'.reached
    /\ last'.idp = IdParam(T.id)
    /\ \A U \in GetUser(last'.ctx) : U.id # T.user_id

\* C2: GET, PUT and DELETE /tasks/{id} by an authenticated user that does
\* not own task {id} are answered 404, with the response the same request
\* gets for an id no task has, and the tasks table stays as it was.
C2_NonOwnerGets404 ==
    [][\A T \in tasks :
          NonOwnerRequest(T) =>
              /\ last'.resp.status = 404
              /\ last'.resp =
                   ServeHTTP(DB, last'.route, last'.header,
                             IdParam(MaxTaskID + 1), last'.body, "",
                             last'.dbOk).resp
              /\ tasks' = tasks]_vars

\* the step served POST /tasks, with a body that passes validation, to the
\* handler
CreateRequest ==
    /\ last'.op = "HTTP"
    /\ last'.route = "POST /tasks"
    /\ last'.reached
    /\ last'.body.ok
    /\ validateTaskInput(last'.body.input, "create") = {}

\* C3: POST /tasks by an authenticated user U adds one row to the tasks
\* table, with user_id = U.id, and answers 201 with that row's id.
C3_CreateOwnedByCaller ==
    [][CreateRequest =>
          /\ last'.resp.status = 201
          /\ \E t \in tasks' \ tasks :
                /\ tasks' = tasks \cup {t}
                /\ \A U \in GetUser(last'.ctx) : t.user_id = U.id
                /\ \A d \in last'.resp.data : d.id = t.id]_vars

\* user id was given out and its row is gone: DeleteUser(id) has succeeded
Deleted(id) == id < nextUserID /\ id \notin UserIDs(DB)

\* the ids of the users in an optional user
IdsOf(user) == {u.id : u \in user}

\* nothing of user id is left: no task, no token, and no bearer token
\* resolves to that user
NoTrace(id) ==
    /\ \A t \in tasks : t.user_id # id
    /\ \A t \in tokens : t.user_id # id
    /\ \A k \in PresentedTokens :
          id \notin IdsOf(GetUserByToken(DB, k, "auth", TRUE).user)

\* a token issued to a user since deleted resolves only if the same raw
\* value has since been issued to a user that is still registered
IssuedToDeletedFails ==
    \A i \in issued :
        Deleted(i.user_id) =>
            \A u \in GetUserByToken(DB, i.token, "auth", TRUE).user :
                \E j \in issued : j.token = i.token /\ j.user_id = u.id

\* C11: once DeleteUser(U) has succeeded, in every later state no task and
\* no token has user_id = U, no bearer token resolves to U, a token issued
\* to U does not resolve, and no later request is served with U as its user.
C11_DeletedUserLeavesNothing ==
    /\ \A id \in 1 .. MaxUserID :
          [](Deleted(id) => [](NoTrace(id) /\ IssuedToDeletedFails))
    /\ [][last'.op = "HTTP" =>
            \A id \in IdsOf(GetUser(last'.ctx)) : ~Deleted(id)]_vars

\* user 1 had a task and a token and was deleted; a later request with the
\* token user 1 was issued is refused, while user 2 is still registered
C11_Witness ==
    /\ last.op = "HTTP"
    /\ last.route = "GET /tasks/{id}"
    /\ last.resp.status = 401
    /\ Deleted(1)
    /\ nextTaskID > 1
    /\ tasks = {}
    /\ 2 \in UserIDs(DB)
    /\ \E i \in issued : i.user_id = 1 /\ last.header = <<"Bearer", " ", i.token>>

\* the values of the token column
Stored == {t.token : t \in tokens}

\* C12: every value of the token column is the hash of a raw token and is
\* not a raw token; GenerateToken returns the raw token whose hash it
\* stored, GetUserByToken returns no token with the user, and a stored value
\* presented as the bearer token resolves to no user under any scope.
C12_OnlyHashesStored ==
    /\ Stored \subseteq {HashToken(k) : k \in RawTokens}
    /\ Stored \cap RawTokens = {}
    /\ \A h \in Stored : \A s \in Scopes :
          GetUserByToken(DB, h, s, TRUE).user = {}
    /\ last.op = "GenerateToken" /\ last.err = NoErr =>
          /\ last.token \in RawTokens
          /\ HashToken(last.token) \in Stored
    /\ last.op = "GetUserByToken" =>
          /\ \A u \in last.user : "token" \notin DOMAIN u
          /\ last.token \in Stored => last.user = {}
    /\ last.op = "HTTP" /\ Len(last.header) = 3 /\ BearerShaped(last.header)
          /\ BearerToken(last.header) \in Stored =>
              last.resp.status = 401 /\ ~last.reached

\* the stored hash of an unexpired token of an existing user was presented
\* under the token's scope and found no user
C12_Witness ==
    /\ last.op = "GetUserByToken"
    /\ last.dbOk
    /\ last.user = {}
    /\ \E t \in tokens :
          /\ t.token = last.token
          /\ t.scope = last.scope
          /\ t.expiry > now
          /\ t.user_id \in UserIDs(DB)

\* the step served GET, PUT or DELETE /tasks/{id} to the handler, for a
\* numeric id that no row of the tasks table has
MissingTaskRequest ==
    /\ last'.op = "HTTP"
    /\ last'.route \in {"GET /tasks/{id}", "PUT /tasks/{id}",
                        "DELETE /tasks/{id}"}
    /\ last'.reached
    /\ last'.idp.parses
    /\ \A t \in tasks : t.id # last'.idp.n

\* C13: when the task store finds no task for the requested id, the GET,
\* PUT and DELETE /tasks/{id} handlers answer 404.
C13_NotFoundIs404 ==
    [][MissingTaskRequest => last'.resp.status = 404]_vars

\* the tasks with this id that belong to this user: one at most
Owned(id, userID) == {t \in tasks : t.id = id /\ t.user_id = userID}

\* C14: DeleteTask(id, user) for an id that is not a task of that user,
\* deleted before or never created, returns ErrTaskNotFound and leaves the
\* tables as they were; a DeleteTask that repeats the arguments of the
\* successful DeleteTask before it returns ErrTaskNotFound.
C14_DeleteMissingNotFound ==
    [][last'.op = "DeleteTask" =>
          /\ Owned(last'.id, last'.user_id) = {} =>
                /\ last'.err = ErrTaskNotFound
                /\ UNCHANGED <<users, tasks, tokens, nextTaskID>>
          /\ /\ last.op = "DeleteTask"
             /\ last.err = NoErr
             /\ last.id = last'.id
             /\ last.user_id = last'.user_id
             => last'.err = ErrTaskNotFound /\ tasks' = tasks]_vars

\* a DeleteTask by a registered user for an id whose task was deleted
\* before, while another task is in the table
C14_Witness ==
    /\ last.op = "DeleteTask"
    /\ last.err = ErrTaskNotFound
    /\ last.id < nextTaskID
    /\ last.user_id \in UserIDs(DB)
    /\ \A t \in tasks : t.id # last.id
    /\ tasks # {}

\* C15: GetTaskByID(id, user) for an id that is not a task of that user
\* returns a nil task and a nil error.
C15_GetMissingNilNil ==
    [][last'.op = "GetTaskByID" /\ Owned(last'.id, last'.user_id) = {} =>
          last'.task = {} /\ last'.err = NoErr]_vars

\* the database after the step
DBAfter == [users |-> users', nextUserID |-> nextUserID', tasks |-> tasks',
            nextTaskID |-> nextTaskID', tokens |-> tokens', now |-> now']

\* tasks a and b agree on the fields a caller of CreateTask supplies
SameInput(a, b) ==
    /\ a.user_id = b.user_id
    /\ a.name = b.name
    /\ a.description = b.description
    /\ a.category = b.category
    /\ a.is_complete = b.is_complete
    /\ a.due_date = b.due_date

OwnerPut(T) ==
    /\ last'.op = "HTTP"
    /\ last'.route = "PUT /tasks/{id}"
    /\ last'.reached
    /\ last'.idp = IdParam(T.id)
    /\ \E U \in GetUser(last'.ctx) : U.id = T.user_id

\* the value of a field after a request carrying the optional value opt
Supplied(opt, stored) == IF opt = {} THEN stored ELSE CHOOSE x \in opt : TRUE

\* row T with the fields body supplies, updated at time at
Patched(T, body, at) ==
    [T EXCEPT !.name = Supplied(body.name, @),
              !.description = Supplied(body.description, @),
              !.category = Supplied(body.category, @),
              !.is_complete = Supplied(body.is_complete, @),
              !.due_date = Supplied(body.due_date, @),
              !.updated_at = ValidTime(at)]

\* C17: a PUT /tasks/{id} by the owner that is answered 200 replaces the
\* stored row by the same row with the supplied fields and updated_at
\* changed, and any other answer leaves the table alone; no PUT changes the
\* id, user_id or created_at of a row.  A successful UpdateTask of the store
\* is followed by a GetTaskByID that returns the new name and description.
C17_PartialUpdate ==
    [][/\ \A T \in tasks :
            OwnerPut(T) =>
                IF last'.resp.status = 200
                THEN tasks' = (tasks \ {T})
                                \cup {Patched(T, last'.body, now')}
                ELSE tasks' = tasks
       /\ last'.op = "HTTP" /\ last'.route = "PUT /tasks/{id}" =>
            \A T \in tasks : \E R \in tasks' :
                /\ R.id = T.id
                /\ R.user_id = T.user_id
                /\ R.created_at = T.created_at
       /\ last'.op = "UpdateTask" /\ last'.err = NoErr =>
            \A in \in last'.in :
                LET g == GetTaskByID(DBAfter, in.id, in.user_id)
                IN  /\ g.err = NoErr
                    /\ \A t \in g.task :
                          /\ t.name = in.name
                          /\ t.description = in.description]_vars

\* the owner of task 1 sent {"is_complete": true}: the row is complete and
\* its name and category are the ones it was created with
C17_Witness ==
    /\ last.op = "HTTP"
    /\ last.route = "PUT /tasks/{id}"
    /\ last.resp.status = 200
    /\ last.body = TaskPatch({}, {TRUE})
    /\ \E t \in tasks, U \in GetUser(last.ctx) :
          /\ t.id = 1
          /\ t.user_id = U.id
          /\ t.is_complete
          /\ t.name = <<"a">>
          /\ t.category = <<"h">>
          /\ t.updated_at = ValidTime(now)

\* s is empty or has only white space
Blank(s) == \A i \in DOMAIN s : s[i] \in {" ", "\t", "\n"}

\* C18: a POST /tasks with an empty or whitespace-only name, served to the
\* handler, is answered 400 with errors.name = "name is required"; the
\* tasks table and its id sequence stay as they were.
C18_BlankNameRejected ==
    [][/\ last'.op = "HTTP"
       /\ last'.route = "POST /tasks"
       /\ last'.reached
       /\ last'.body.ok
       /\ Blank(last'.body.input.name)
       => /\ last'.resp.status = 400
          /\ last'.resp.kind = "json_errors"
          /\ <<"name", "name is required">> \in last'.resp.data
          /\ tasks' = tasks
          /\ nextTaskID' = nextTaskID]_vars

\* a name of a space and a tab was refused while the table held a task
C18_Witness ==
    /\ last.op = "HTTP"
    /\ last.route = "POST /tasks"
    /\ last.reached
    /\ last.body.input.name = <<" ", "\t">>
    /\ last.resp.status = 400
    /\ tasks # {}

\* the limits of a task's text fields: a name of 1 to 100 characters, a
\* description of at most 255, a category of at most 50
WithinLimits(input) ==
    /\ Len(input.name) \in 1 .. MaxNameLen
    /\ Len(input.description) <= DescriptionColumnLen
    /\ Len(input.category) <= MaxCategoryLen

\* C19: a POST /tasks served to the handler with a name that is not blank
\* is answered 201, with the task added to the table, when its name,
\* description and category are within their limits, and 400 with
\* field-level messages when one of them is over its limit.
C19_LimitsValidated ==
    [][/\ last'.op = "HTTP"
       /\ last'.route = "POST /tasks"
       /\ last'.reached
       /\ last'.body.ok
       /\ ~Blank(last'.body.input.name)
       => IF WithinLimits(last'.body.input)
          THEN /\ last'.resp.status = 201
               /\ \E t \in tasks' \ tasks : t.name = last'.body.input.name
          ELSE /\ last'.resp.status = 400
               /\ last'.resp.kind = "json_errors"
               /\ last'.resp.data # {}]_vars

\* a stored user other than id has the username or the email of user
InUse(user, id) ==
    \E u \in users :
        u.id # id /\ (u.username = user.username \/ u.email = user.email)

\* C20: no two stored users share a username or an email.  RegisterUser
\* with a username or an email in use returns an error and no user and
\* leaves the table alone; otherwise it returns the username and email it
\* was given with a positive id and both timestamps set.  UpdateUser to a
\* username or an email of another user returns an error and writes nothing.
C20_UsersUnique ==
    /\ [](\A u, v \in users :
             u.id # v.id => u.username # v.username /\ u.email # v.email)
    /\ [][/\ last'.op = "RegisterUser" =>
               IF InUse(last'.in, 0)
               THEN /\ last'.err # NoErr
                    /\ last'.user = {}
                    /\ users' = users
               ELSE /\ last'.err = NoErr
                    /\ \E r \in last'.user :
                          /\ last'.user = {r}
                          /\ r \in users'
                          /\ r.username = last'.in.username
                          /\ r.email = last'.in.email
                          /\ r.id > 0
                          /\ r.created_at.valid
                          /\ r.updated_at.valid
          /\ last'.op = "UpdateUser" =>
               \A in \in last'.in :
                  InUse(in, in.id) => last'.err # NoErr /\ users' = users]_vars

\* RegisterUser refused a new username with the email of the stored user
C20_Witness ==
    /\ last.op = "RegisterUser"
    /\ last.err # NoErr
    /\ last.user = {}
    /\ \E u \in users :
          u.email = last.in.email /\ u.username # last.in.username

\* C21: no stored task has an empty or whitespace-only name.  CreateTask
\* with such a name returns an error and no task, UpdateTask with such a
\* name returns an error, a PUT /tasks/{id} that supplies such a name is not
\* answered 200, and each of them leaves the tasks table as it was.
C21_NoBlankNames ==
    /\ [](\A t \in tasks : ~Blank(t.name))
    /\ [][/\ last'.op = "CreateTask" /\ Blank(last'.in.name) =>
               last'.err # NoErr /\ last'.task = {} /\ tasks' = tasks
          /\ last'.op = "UpdateTask" =>
               \A in \in last'.in :
                  Blank(in.name) => last'.err # NoErr /\ tasks' = tasks
          /\ /\ last'.op = "HTTP"
             /\ last'.route = "PUT /tasks/{id}"
             /\ last'.reached
             /\ last'.body.ok
             /\ \E n \in last'.body.name : Blank(n)
             => last'.resp.status # 200 /\ tasks' = tasks]_vars

\* C22: when PUT /tasks/{id} requests of the owner run at the same time, the
\* write of each request changes, in the row as it is stored at that moment,
\* the fields the request supplied and updated_at and no other field: no
\* request writes back the value it read for a field it did not supply, so
\* the row ends with the values of every request.
C22_ConcurrentUpdatesMerge ==
    [][last'.op = "PUT write" /\ last'.resp.status = 200 =>
          \A T \in tasks :
              T.id = last'.idp.n =>
                  tasks' = (tasks \ {T}) \cup {Patched(T, last'.body, now')}]_vars

\* the step served a request behind RequireUser followed by Authenticate
GuardFirst ==
    /\ last'.op = "HTTP behind"
    /\ last'.mws = <<"RequireUser", "Authenticate">>

\* C23 as stated: with RequireUser placed before Authenticate the request is
\* answered as if the guard were absent, that is as behind Authenticate alone.
C23_GuardFirstNoEffect ==
    [][GuardFirst =>
          LET s == Serve(<<"Authenticate">>, DB,
                         [header |-> last'.header, ctx |-> EmptyCtx],
                         last'.dbOk)
              o == Handled(DB, s, last'.route, last'.idp, NoBody, "")
          IN  /\ last'.resp = o.resp
              /\ last'.reached = o.reached]_vars

\* C23, amended: with RequireUser placed before Authenticate every request,
\* whatever its Authorization header, is answered 401 "you must be logged in
\* to access this route" by RequireUser; Authenticate and the handler do not
\* run and the store is left as it was.
C23_GuardFirstRejectsAll ==
    [][GuardFirst =>
          /\ last'.resp = Resp(401, "json_error",
                               "you must be logged in to access this route", {})
          /\ ~last'.reached
          /\ last'.ran = <<"RequireUser">>
          /\ GetUser(last'.ctx) = {}
          /\ UNCHANGED <<users, tasks, tokens, nextUserID, nextTaskID>>]_vars

\* a request with a token that the route's own stack lets through to the
\* handler was refused by the guard placed first
C23_Witness ==
    /\ last.op = "HTTP behind"
    /\ last.mws = <<"RequireUser", "Authenticate">>
    /\ last.resp.status = 401
    /\ Serve(Middlewares(last.route), DB,
             [header |-> last.header, ctx |-> EmptyCtx], last.dbOk).reached

\* C24: POST /users is all or nothing.  Answered 201, it has added one user
\* row and the token of the response resolves to that user; answered with an
\* error, it has left the users table as it was, so that the username and
\* the email of the request are still free.
C24_RegisterAllOrNothing ==
    [][last'.op = "HTTP" /\ last'.route = "POST /users" =>
          IF last'.resp.status = 201
          THEN \E u \in users' \ users :
                  /\ users' = users \cup {u}
                  /\ \A d \in last'.resp.data :
                        /\ d.id = u.id
                        /\ GetUserByToken(DBAfter, d.token, "auth", TRUE).user
                             = {u}
          ELSE users' = users]_vars

\* C25: every stored task and every stored token belongs to a stored user.
\* A CreateTask or a GenerateToken for a user id that has no row, such as
\* the id of a user deleted in the meantime, returns an error and stores
\* nothing.
C25_RowsReferenceUsers ==
    /\ [](/\ \A t \in tasks : t.user_id \in UserIDs(DB)
          /\ \A t \in tokens : t.user_id \in UserIDs(DB))
    /\ [][/\ last'.op = "CreateTask" /\ last'.in.user_id \notin UserIDs(DB) =>
               last'.err # NoErr /\ last'.task = {} /\ tasks' = tasks
          /\ last'.op = "GenerateToken"
               /\ last'.user_id \notin UserIDs(DB) =>
               last'.err # NoErr /\ last'.token = "" /\ tokens' = tokens]_vars

\* CreateTask was refused for a user that had been registered and deleted,
\* while another user has a task and a token
C25_Witness ==
    /\ last.op = "CreateTask"
    /\ last.err # NoErr
    /\ Deleted(last.in.user_id)
    /\ tasks # {}
    /\ tokens # {}

\* the step served PUT or DELETE /users/me
MeRequest ==
    /\ last'.op = "HTTP"
    /\ last'.route \in UserRoutes

\* C26: PUT /users/me and DELETE /users/me touch the account of the caller,
\* the user the bearer token resolved to, and nothing else: the rows, tasks
\* and tokens of the other users stay as they are, no row is added, a PUT
\* changes no task and no token, a PUT without a password keeps the stored
\* password hash, and a request stopped by the middleware changes nothing.
C26_OnlyOwnAccount ==
    [][MeRequest =>
          /\ \A V \in users :
                (\A U \in GetUser(last'.ctx) : V.id # U.id) => V \in users'
          /\ \A t \in tasks :
                (\A U \in GetUser(last'.ctx) : t.user_id # U.id) => t \in tasks'
          /\ \A t \in tokens :
                (\A U \in GetUser(last'.ctx) : t.user_id # U.id) => t \in tokens'
          /\ UserIDs(DBAfter) \subseteq UserIDs(DB)
          /\ tasks' \subseteq tasks
          /\ tokens' \subseteq tokens
          /\ last'.route = "PUT /users/me" => tasks' = tasks /\ tokens' = tokens
          /\ last'.route = "PUT /users/me" /\ last'.body.input.password = <<>> =>
                \A V \in users, W \in users' :
                    V.id = W.id => W.password_hash = V.password_hash
          /\ last'.route = "DELETE /users/me" /\ last'.resp.status = 200 =>
                \A U \in GetUser(last'.ctx) : U.id \notin UserIDs(DBAfter)
          /\ ~last'.reached =>
                UNCHANGED <<users, tasks, tokens, nextUserID, nextTaskID>>]_vars

\* one of two users, both with a task, renamed the account without sending a
\* password
C26_Witness ==
    /\ last.op = "HTTP"
    /\ last.route = "PUT /users/me"
    /\ last.resp.status = 200
    /\ last.body.input.password = <<>>
    /\ Cardinality(users) = 2
    /\ \A u \in users : \E t \in tasks : t.user_id = u.id
    /\ \E u \in users : u.username = <<"c">>

====
